---- MODULE Spec2Model ----
(***************************************************************************)
(* Client-side verification of AKD key-history proofs                      *)
(* (akd_core/src/verify/history.rs): key_history_verify (v1),              *)
(* key_history_verify_v2, verify_with_history_params and                   *)
(* verify_single_update_proof, as operators that compute what the Rust     *)
(* functions compute, together with the log of the base-verifier calls     *)
(* they make on the way.  The state machine draws a call's arguments in    *)
(* Init and applies one of the two public verifiers to them (Spec).        *)
(* SpecMarkers applies get_marker_versions on its own, and SpecNodeLabel   *)
(* the NodeLabel methods of src/node_state.rs.                             *)
(*                                                                         *)
(* u64 values are integers; a negative integer n stands for the wrapped    *)
(* value 2^64 + n that a build without overflow checks produces.           *)
(***************************************************************************)
EXTENDS Integers, Sequences, FiniteSets, TLC

VARIABLES
    current_epoch,  \* argument current_epoch: u64
    params,         \* argument params / verification_params
    proof,          \* argument proof: the fields of HistoryProof and HistoryProofV2
    dir,            \* the directory state committed to by the argument root_hash
    op,             \* the verifier that has been called, "none" before the call
    ret,            \* what the call returned
    stdout,         \* the lines the call printed
    callee,         \* a helper function applied on its own, "none" before the call
    arguments,      \* the arguments of that call
    returned        \* what that call returned

vars == <<current_epoch, params, proof, dir, op, ret, stdout, callee, arguments, returned>>

(***************************************************************************)
(* Bounds of the explored argument space.                                  *)
(***************************************************************************)
MaxProofs == 3     \* longest update_proofs list
MaxVersion == 4    \* largest version in a proof or a directory
MaxEpoch == 4      \* largest current_epoch and update epoch
MaxRecency == 2    \* largest n of MostRecent(n)
MaxMarkerVersion == 9  \* largest argument of get_marker_versions applied on its own
MaxLabelLen == 4   \* longest NodeLabel, standing for the 64 bits of val
WordBits == 4      \* width of the version type, standing for the 64 bits of u64
MaxWideMarkers == 2  \* longest marker sequence sent with a version near u64::MAX

(***************************************************************************)
(* Values.  crate::TOMBSTONE is the redacted value; every other value is   *)
(* an opaque byte string, here a positive number.                          *)
(***************************************************************************)
TOMBSTONE == 0

(***************************************************************************)
(* HistoryParams and HistoryVerificationParams.                            *)
(***************************************************************************)
Complete == [kind |-> "Complete", recency |-> 0]
MostRecent(n) == [kind |-> "MostRecent", recency |-> n]

HistoryParams == {Complete} \cup {MostRecent(n) : n \in 0..MaxRecency}

HistoryVerificationParams ==
    [variant : {"Default", "AllowMissingValues"}, historyParams : HistoryParams]

(***************************************************************************)
(* The directory behind root_hash, for the one label the call is about.    *)
(* It holds versions 1..n of the label.  Version v was inserted at epoch   *)
(* EpochOf(style, v): the Fresh leaf of v commits to the value of v at     *)
(* that epoch, and the Stale leaf of v is written, with the configured     *)
(* stale sentinel, at the epoch that inserted v + 1.  An honest directory  *)
(* stamps every version of a label with a new epoch ("strict"); a          *)
(* directory of style "tied" stamps two consecutive versions with one      *)
(* epoch, and one of style "reversed" stamps later versions with earlier   *)
(* epochs.                                                                 *)
(***************************************************************************)
EpochOf(style, v) ==
    CASE style = "strict" -> v
      [] style = "tied" -> (v + 1) \div 2
      [] OTHER -> MaxVersion + 1 - v

ValueOf(v) == v + 1

Commit(value, nonce) == [value |-> value, nonce |-> nonce]

stale_azks_value == [value |-> -1, nonce |-> "stale"]

HasLeaf(d, freshness, version) ==
    IF freshness = "Fresh"
    THEN 1 <= version /\ version <= d.n
    ELSE 1 <= version /\ version < d.n

LeafCommitment(d, freshness, version) ==
    IF freshness = "Fresh"
    THEN Commit(ValueOf(version), "good")
    ELSE stale_azks_value

LeafEpoch(d, freshness, version) ==
    IF freshness = "Fresh"
    THEN EpochOf(d.style, version)
    ELSE EpochOf(d.style, version + 1)

(***************************************************************************)
(* Base verifiers (super::base).  A VRF proof or a (non-)membership proof  *)
(* is "good" when it is the proof of the directory for the coordinate it   *)
(* is used at; no good proof exists for a false statement.  Each returns   *)
(* "Ok" or the kind of its error.                                          *)
(***************************************************************************)
verify_existence(d, freshness, version, vrf_proof, membership_proof) ==
    IF vrf_proof # "good" THEN "VrfInvalid"
    ELSE IF membership_proof # "good" \/ ~HasLeaf(d, freshness, version)
         THEN "MembershipInvalid"
    ELSE "Ok"

verify_existence_with_commitment(d, commitment, epoch, freshness, version, vrf_proof, membership_proof) ==
    IF vrf_proof # "good" THEN "VrfInvalid"
    ELSE IF membership_proof # "good" \/ ~HasLeaf(d, freshness, version)
         THEN "MembershipInvalid"
    ELSE IF \/ LeafCommitment(d, freshness, version) # commitment
            \/ LeafEpoch(d, freshness, version) # epoch
         THEN "CommitmentMismatch"
    ELSE "Ok"

verify_existence_with_val(d, value, epoch, nonce, freshness, version, vrf_proof, membership_proof) ==
    verify_existence_with_commitment(d, Commit(value, nonce), epoch, freshness,
                                     version, vrf_proof, membership_proof)

verify_nonexistence(d, freshness, version, vrf_proof, nonmembership_proof) ==
    IF vrf_proof # "good" THEN "VrfInvalid"
    ELSE IF nonmembership_proof # "good" \/ HasLeaf(d, freshness, version)
         THEN "NonMembershipInvalid"
    ELSE "Ok"

(***************************************************************************)
(* Option<T>: None or Some(x).                                             *)
(***************************************************************************)
None == <<>>
Some(x) == <<x>>

(***************************************************************************)
(* One entry of the log of base-verifier calls.                            *)
(***************************************************************************)
NoCommitment == [value |-> -2, nonce |-> "none"]

\* site: the place of the call ("update": the leaf of an update's version,
\* "previous": the stale leaf of the version before it, or the marker loop)
Call(fn, site, freshness, version, commitment, epoch, outcome) ==
    [fn |-> fn, site |-> site, freshness |-> freshness, version |-> version,
     commitment |-> commitment, epoch |-> epoch, outcome |-> outcome]

(***************************************************************************)
(* Results: Ok(results), Err(VerificationError), or a panic of the call.   *)
(***************************************************************************)
Ok(results, calls) ==
    [tag |-> "Ok", kind |-> "", msg |-> "", results |-> results, calls |-> calls]

Err(kind, msg, calls) ==
    [tag |-> "Err", kind |-> kind, msg |-> msg, results |-> <<>>, calls |-> calls]

Panic(msg, calls) ==
    [tag |-> "Panic", kind |-> "", msg |-> msg, results |-> <<>>, calls |-> calls]

HistoryProofErr(msg, calls) == Err("HistoryProof", msg, calls)

\* VerifyResult with the two u64 fields exchanged
VerifyResultSwapped(u) == [epoch |-> u.version, version |-> u.epoch, value |-> u.value]

VerifyResult(u) == [epoch |-> u.epoch, version |-> u.version, value |-> u.value]

(***************************************************************************)
(* verify_single_update_proof: the Fresh leaf of the update's version,     *)
(* then, for a version above 1, the Stale leaf of the version before it.   *)
(***************************************************************************)
\* the tombstone arm taken under either variant of the params
SkipsValueCheckAnyVariant(p, u) == u.value = TOMBSTONE

SkipsValueCheck(p, u) ==
    p.variant = "AllowMissingValues" /\ u.value = TOMBSTONE

\* the test for a first version written as version < 1
HasNoPreviousVersionBelowOne(version) == version < 1

HasNoPreviousVersion(version) == version <= 1

\* the stale-leaf check made with the epoch before the update's own
StaleLeafEpochBefore(u) == u.epoch - 1

\* the epoch argument of the stale-leaf check: proof.epoch
StaleLeafEpoch(u) == u.epoch

verify_single_update_proof(d, u, p) ==
    LET o1 == IF SkipsValueCheck(p, u)
              THEN verify_existence(d, "Fresh", u.version,
                                    u.existence_vrf_proof, u.existence_proof)
              ELSE verify_existence_with_val(d, u.value, u.epoch,
                                             u.commitment_nonce, "Fresh", u.version,
                                             u.existence_vrf_proof, u.existence_proof)
        c1 == IF SkipsValueCheck(p, u)
              THEN Call("verify_existence", "update", "Fresh", u.version,
                        NoCommitment, None, o1)
              ELSE Call("verify_existence_with_val", "update", "Fresh", u.version,
                        Commit(u.value, u.commitment_nonce), Some(u.epoch), o1)
        o2 == verify_existence_with_commitment(d, stale_azks_value, StaleLeafEpoch(u),
                                               "Stale", u.version - 1,
                                               u.previous_version_vrf_proof,
                                               u.previous_version_proof)
        c2 == Call("verify_existence_with_commitment", "previous", "Stale", u.version - 1,
                   stale_azks_value, Some(StaleLeafEpoch(u)), o2)
    IN  IF o1 # "Ok" THEN Err(o1, "", <<c1>>)
        ELSE IF HasNoPreviousVersion(u.version)
             THEN Ok(<<VerifyResult(u)>>, <<c1>>)
        ELSE IF u.previous_version_proof = "None"
             THEN HistoryProofErr("Missing membership proof for previous version", <<c1>>)
        ELSE IF u.previous_version_vrf_proof = "None"
             THEN HistoryProofErr("Missing VRF proof for previous version", <<c1>>)
        ELSE IF o2 # "Ok" THEN Err(o2, "", <<c1, c2>>)
        ELSE Ok(<<VerifyResult(u)>>, <<c1, c2>>)

(***************************************************************************)
(* Marker versions (crate::utils).                                         *)
(***************************************************************************)
RECURSIVE Pow2(_)
Pow2(k) == IF k <= 0 THEN 1 ELSE 2 * Pow2(k - 1)

\* u64 arithmetic at the model's width: u64::MAX, and +, - and 1 << n as a
\* build without overflow checks computes them (the shift amount is taken
\* modulo the width)
WordModulus == Pow2(WordBits)

U64_MAX == WordModulus - 1

WrappingAdd(a, b) == (a + b) % WordModulus

WrappingSub(a, b) == (a - b) % WordModulus

WrappingShl1(n) == Pow2(n % WordBits)

RECURSIVE FloorLog2(_)
FloorLog2(v) == IF v <= 1 THEN 0 ELSE 1 + FloorLog2(v \div 2)

\* floor(log2(version)); for version 0 the subtraction 64 - 64 - 1 leaves the
\* u64 range, which a build without overflow checks wraps to 2^64 - 1.
get_marker_version_log2(version) == IF version = 0 THEN -1 ELSE FloorLog2(version)

RECURSIVE PowersOfTwoIn(_, _, _)
PowersOfTwoIn(p, lo, hi) ==
    IF p > hi THEN <<>>
    ELSE (IF p >= lo THEN <<p>> ELSE <<>>) \o PowersOfTwoIn(2 * p, lo, hi)

\* the marker versions with end_version counted among the future markers
get_marker_versions_inclusive(start_version, end_version, epoch) ==
    [past |-> PowersOfTwoIn(1, start_version, end_version),
     future |-> PowersOfTwoIn(1, end_version, epoch)]

get_marker_versions(start_version, end_version, epoch) ==
    [past |-> PowersOfTwoIn(1, start_version, end_version),
     future |-> PowersOfTwoIn(1, end_version + 1, epoch)]

(***************************************************************************)
(* The checks both verifiers make on the update proofs.                    *)
(***************************************************************************)
\* an empty proof taken as vacuously valid
EmptyProofAccepted == Ok(<<>>, <<>>)

\* what both return for num_proofs == 0
EmptyProofResult == HistoryProofErr("No update proofs included in the proof", <<>>)

\* the contiguity check written for ascending versions
NotConsecutiveAscending(ups, count) == ups[count].version # ups[count - 1].version + 1

\* update_proofs[count].version + 1 != update_proofs[count - 1].version
NotConsecutive(ups, count) == WrappingAdd(ups[count].version, 1) # ups[count - 1].version

\* the loop reaches an update of version u64::MAX at an index above 0, where
\* version + 1 leaves the u64 range
ContiguityOverflows(ups) ==
    \E count \in 2..Len(ups) :
        /\ ups[count].version = U64_MAX
        /\ \A c \in 2..(count - 1) : ~NotConsecutive(ups, c)

VersionsNotContiguous(ups) == \E count \in 2..Len(ups) : NotConsecutive(ups, count)

\* the epoch check with >= in place of >
EpochNotBelow(epoch, previous_update_epoch) == epoch >= previous_update_epoch

\* update_proof.epoch > previous_update_epoch
EpochOutOfOrder(epoch, previous_update_epoch) == epoch > previous_update_epoch

(***************************************************************************)
(* verify_with_history_params: the checks of key_history_verify_v2 that    *)
(* need no base verifier.  Returns the past and future marker versions.    *)
(***************************************************************************)
RECURSIVE StartVersion(_, _, _)
StartVersion(ups, i, start_version) ==
    IF i > Len(ups) THEN start_version
    ELSE StartVersion(ups, i + 1, IF ups[i].version < start_version
                                  THEN ups[i].version ELSE start_version)

RECURSIVE EndVersion(_, _, _)
EndVersion(ups, i, end_version) ==
    IF i > Len(ups) THEN end_version
    ELSE EndVersion(ups, i + 1, IF ups[i].version > end_version
                                THEN ups[i].version ELSE end_version)

StartVersionIsZero(start_version) == start_version = 0

\* the range check off by one
EndVersionExceedsNextEpoch(end_version, epoch) == end_version > epoch + 1

EndVersionExceedsEpoch(end_version, epoch) == end_version > epoch

\* the match on HistoryParams with an empty Complete arm
HistoryParamsErrorCompleteUnchecked(hp, num_proofs, start_version) ==
    IF hp.kind = "Complete" THEN ""
    ELSE IF num_proofs < hp.recency
         THEN IF start_version # 1
              THEN "Expected start version to be 1 given that the number of proofs returned was less than the recency parameter"
              ELSE ""
    ELSE IF num_proofs > hp.recency
         THEN "Expected at most recency update proofs"
    ELSE ""

\* the match on HistoryParams with <= in place of <
HistoryParamsErrorInclusive(hp, num_proofs, start_version) ==
    IF hp.kind = "Complete"
    THEN IF start_version # 1
         THEN "Expected start version to be 1 given that it is a complete history"
         ELSE ""
    ELSE IF num_proofs <= hp.recency
         THEN IF start_version # 1
              THEN "Expected start version to be 1 given that the number of proofs returned was less than the recency parameter"
              ELSE ""
    ELSE "Expected at most recency update proofs"

\* the error, if any, of the match on HistoryParams
HistoryParamsError(hp, num_proofs, start_version) ==
    IF hp.kind = "Complete"
    THEN IF start_version # 1
         THEN "Expected start version to be 1 given that it is a complete history"
         ELSE ""
    ELSE IF num_proofs < hp.recency
         THEN IF start_version # 1
              THEN "Expected start version to be 1 given that the number of proofs returned was less than the recency parameter"
              ELSE ""
    ELSE IF num_proofs > hp.recency
         THEN "Expected at most recency update proofs"
    ELSE ""

\* the count test passing a sequence that is longer than expected
LengthTooShort(expected, actual) == expected > actual

\* expected.len() != actual.len(), the test of the four marker-count checks
LengthsDiffer(expected, actual) == expected # actual

verify_with_history_params(epoch, pf, hp, overflow_checks) ==
    LET ups == pf.update_proofs
        num_proofs == Len(ups)
        start_version == StartVersion(ups, 1, ups[1].version)
        end_version == EndVersion(ups, 1, ups[1].version)
        policy == HistoryParamsError(hp, num_proofs, start_version)
        markers == get_marker_versions(start_version, end_version, epoch)
    IN  IF num_proofs = 0
        THEN EmptyProofResult
        ELSE IF overflow_checks /\ ContiguityOverflows(ups)
        THEN Panic("attempt to add with overflow", <<>>)
        ELSE IF VersionsNotContiguous(ups)
        THEN HistoryProofErr("Update proofs should be ordered consecutively and in decreasing order", <<>>)
        ELSE IF StartVersionIsZero(start_version)
        THEN HistoryProofErr("Computed start version for the key history should be non-zero", <<>>)
        ELSE IF EndVersionExceedsEpoch(end_version, epoch)
        THEN HistoryProofErr("Computed end version for the key history should not exceed current epoch", <<>>)
        ELSE IF policy # ""
        THEN HistoryProofErr(policy, <<>>)
        ELSE IF LengthsDiffer(Len(markers.past), Len(pf.past_marker_vrf_proofs))
        THEN HistoryProofErr("Expected past marker proofs", <<>>)
        ELSE IF LengthsDiffer(Len(pf.past_marker_vrf_proofs),
                              Len(pf.existence_of_past_marker_proofs))
        THEN HistoryProofErr("Expected equal number of past marker proofs", <<>>)
        ELSE IF LengthsDiffer(Len(markers.future), Len(pf.future_marker_vrf_proofs))
        THEN HistoryProofErr("Expected future marker proofs", <<>>)
        ELSE IF LengthsDiffer(Len(pf.future_marker_vrf_proofs),
                              Len(pf.non_existence_of_future_marker_proofs))
        THEN HistoryProofErr("Expected equal number of future marker proofs", <<>>)
        ELSE [tag |-> "Ok", past |-> markers.past, future |-> markers.future]

(***************************************************************************)
(* key_history_verify_v2.                                                  *)
(***************************************************************************)
\* the loop over update_proofs going on to the later updates after a failure
RECURSIVE VerifyUpdateProofsKeepGoing(_, _, _, _, _, _, _)
VerifyUpdateProofsKeepGoing(d, ups, vp, i, maybe_previous_update_epoch, results, calls) ==
    IF i > Len(ups) THEN Ok(results, calls)
    ELSE LET result == verify_single_update_proof(d, ups[i], vp)
             rest == VerifyUpdateProofsKeepGoing(d, ups, vp, i + 1, Some(ups[i].epoch),
                                                 results \o result.results,
                                                 calls \o result.calls)
         IN  IF /\ maybe_previous_update_epoch # None
                /\ EpochOutOfOrder(ups[i].epoch, maybe_previous_update_epoch[1])
             THEN HistoryProofErr("Version numbers for updates are decreasing, but their corresponding epochs are not decreasing", calls)
             ELSE IF result.tag # "Ok"
             THEN Err(result.kind, result.msg, rest.calls)
             ELSE rest

\* the loop over update_proofs: epoch order, then verify_single_update_proof
RECURSIVE VerifyUpdateProofsV2(_, _, _, _, _, _, _)
VerifyUpdateProofsV2(d, ups, vp, i, maybe_previous_update_epoch, results, calls) ==
    IF i > Len(ups) THEN Ok(results, calls)
    ELSE IF /\ maybe_previous_update_epoch # None
            /\ EpochOutOfOrder(ups[i].epoch, maybe_previous_update_epoch[1])
         THEN HistoryProofErr("Version numbers for updates are decreasing, but their corresponding epochs are not decreasing", calls)
    ELSE LET result == verify_single_update_proof(d, ups[i], vp)
         IN  IF result.tag # "Ok"
             THEN Err(result.kind, result.msg, calls \o result.calls)
             ELSE VerifyUpdateProofsV2(d, ups, vp, i + 1, Some(ups[i].epoch),
                                       results \o result.results,
                                       calls \o result.calls)

\* the past markers taken as proven without a call
VerifyPastMarkersSkipped(d, pf, past_marker_versions, i, calls) == Ok(<<>>, calls)

\* the loop over past_marker_versions; an error is returned as it is
RECURSIVE VerifyPastMarkers(_, _, _, _, _)
VerifyPastMarkers(d, pf, past_marker_versions, i, calls) ==
    IF i > Len(past_marker_versions) THEN Ok(<<>>, calls)
    ELSE LET o == verify_existence(d, "Fresh", past_marker_versions[i],
                                   pf.past_marker_vrf_proofs[i],
                                   pf.existence_of_past_marker_proofs[i])
             c == Call("verify_existence", "past_marker", "Fresh", past_marker_versions[i],
                       NoCommitment, None, o)
         IN  IF o # "Ok" THEN Err(o, "", Append(calls, c))
             ELSE VerifyPastMarkers(d, pf, past_marker_versions, i + 1, Append(calls, c))

\* the loop over future_marker_versions with a plain ? on each check
RECURSIVE VerifyFutureMarkersV2Propagated(_, _, _, _, _)
VerifyFutureMarkersV2Propagated(d, pf, future_marker_versions, i, calls) ==
    IF i > Len(future_marker_versions) THEN Ok(<<>>, calls)
    ELSE LET o == verify_nonexistence(d, "Fresh", future_marker_versions[i],
                                      pf.future_marker_vrf_proofs[i],
                                      pf.non_existence_of_future_marker_proofs[i])
             c == Call("verify_nonexistence", "future_marker", "Fresh", future_marker_versions[i],
                       NoCommitment, None, o)
         IN  IF o # "Ok" THEN Err(o, "", Append(calls, c))
             ELSE VerifyFutureMarkersV2Propagated(d, pf, future_marker_versions, i + 1,
                                                  Append(calls, c))

\* the loop over future_marker_versions; an error is mapped to HistoryProof
RECURSIVE VerifyFutureMarkersV2(_, _, _, _, _)
VerifyFutureMarkersV2(d, pf, future_marker_versions, i, calls) ==
    IF i > Len(future_marker_versions) THEN Ok(<<>>, calls)
    ELSE LET o == verify_nonexistence(d, "Fresh", future_marker_versions[i],
                                      pf.future_marker_vrf_proofs[i],
                                      pf.non_existence_of_future_marker_proofs[i])
             c == Call("verify_nonexistence", "future_marker", "Fresh", future_marker_versions[i],
                       NoCommitment, None, o)
         IN  IF o # "Ok"
             THEN HistoryProofErr("Non-existence of future marker proof does not verify",
                                  Append(calls, c))
             ELSE VerifyFutureMarkersV2(d, pf, future_marker_versions, i + 1,
                                        Append(calls, c))

key_history_verify_v2(d, epoch, pf, verification_params, overflow_checks) ==
    LET hp == verification_params.historyParams
        markers == verify_with_history_params(epoch, pf, hp, overflow_checks)
        updates == VerifyUpdateProofsV2(d, pf.update_proofs, verification_params,
                                        1, None, <<>>, <<>>)
        past == VerifyPastMarkers(d, pf, markers.past, 1, updates.calls)
        future == VerifyFutureMarkersV2(d, pf, markers.future, 1, past.calls)
    IN  IF markers.tag # "Ok" THEN markers
        ELSE IF updates.tag # "Ok" THEN updates
        ELSE IF past.tag # "Ok" THEN past
        ELSE IF future.tag # "Ok" THEN future
        ELSE Ok(updates.results, future.calls)

\* println!("Hao, verify v2 got params {:?}", params)
PrintedParams(verification_params) ==
    <<"Hao, verify v2 got params", verification_params.historyParams>>

(***************************************************************************)
(* key_history_verify (v1).                                                *)
(***************************************************************************)
\* the loop over update_proofs, which also finds the highest version sent
RECURSIVE VerifyUpdateProofsV1(_, _, _, _, _, _, _, _)
VerifyUpdateProofsV1(d, ups, p, i, last_version, maybe_previous_update_epoch, results, calls) ==
    IF i > Len(ups)
    THEN [tag |-> "Ok", last_version |-> last_version,
          results |-> results, calls |-> calls]
    ELSE IF /\ maybe_previous_update_epoch # None
            /\ EpochOutOfOrder(ups[i].epoch, maybe_previous_update_epoch[1])
         THEN HistoryProofErr("Version numbers for updates are decreasing, but their corresponding epochs are not decreasing", calls)
    ELSE LET result == verify_single_update_proof(d, ups[i], p)
         IN  IF result.tag # "Ok"
             THEN Err(result.kind, result.msg, calls \o result.calls)
             ELSE VerifyUpdateProofsV1(d, ups, p, i + 1,
                                       IF ups[i].version > last_version
                                       THEN ups[i].version ELSE last_version,
                                       Some(ups[i].epoch),
                                       results \o result.results,
                                       calls \o result.calls)

\* key_history_verify without the until-marker loop
VerifyUntilMarkersSkipped(d, pf, last_version, next_marker, i, calls) == Ok(<<>>, calls)

\* the until-marker loop over the range that starts at last_version
RECURSIVE VerifyUntilMarkersFromLast(_, _, _, _, _, _)
VerifyUntilMarkersFromLast(d, pf, last_version, next_marker, i, calls) ==
    IF last_version + i >= Pow2(next_marker) THEN Ok(<<>>, calls)
    ELSE LET version == last_version + i - 1
             o == verify_nonexistence(d, "Fresh", version,
                                      pf.until_marker_vrf_proofs[i],
                                      pf.non_existence_until_marker_proofs[i])
             c == Call("verify_nonexistence", "until_marker", "Fresh", version,
                       NoCommitment, None, o)
         IN  IF o # "Ok"
             THEN HistoryProofErr("Non-existence of next few proof does not verify",
                                  Append(calls, c))
             ELSE VerifyUntilMarkersFromLast(d, pf, last_version, next_marker, i + 1,
                                             Append(calls, c))

\* for (i, version) in (last_version + 1..(1 << next_marker)).enumerate()
RECURSIVE VerifyUntilMarkers(_, _, _, _, _, _)
VerifyUntilMarkers(d, pf, last_version, next_marker, i, calls) ==
    IF WrappingAdd(last_version, 1) + i - 1 >= WrappingShl1(next_marker) THEN Ok(<<>>, calls)
    ELSE LET version == WrappingAdd(last_version, 1) + i - 1
             o == verify_nonexistence(d, "Fresh", version,
                                      pf.until_marker_vrf_proofs[i],
                                      pf.non_existence_until_marker_proofs[i])
             c == Call("verify_nonexistence", "until_marker", "Fresh", version,
                       NoCommitment, None, o)
         IN  IF o # "Ok"
             THEN HistoryProofErr("Non-existence of next few proof does not verify",
                                  Append(calls, c))
             ELSE VerifyUntilMarkers(d, pf, last_version, next_marker, i + 1,
                                     Append(calls, c))

\* the future-marker loop with version = 1 << (pow + 1)
RECURSIVE VerifyFutureMarkersV1NextPower(_, _, _, _, _, _)
VerifyFutureMarkersV1NextPower(d, pf, next_marker, final_marker, i, calls) ==
    IF next_marker + i - 1 >= final_marker + 1 THEN Ok(<<>>, calls)
    ELSE LET version == Pow2(next_marker + i)
             o == verify_nonexistence(d, "Fresh", version,
                                      pf.future_marker_vrf_proofs[i],
                                      pf.non_existence_of_future_marker_proofs[i])
             c == Call("verify_nonexistence", "future_marker", "Fresh", version,
                       NoCommitment, None, o)
         IN  IF o # "Ok"
             THEN HistoryProofErr("Non-existence of future marker proof does not verify",
                                  Append(calls, c))
             ELSE VerifyFutureMarkersV1NextPower(d, pf, next_marker, final_marker, i + 1,
                                                 Append(calls, c))

\* for (i, pow) in (next_marker..final_marker + 1).enumerate()
RECURSIVE VerifyFutureMarkersV1(_, _, _, _, _, _)
VerifyFutureMarkersV1(d, pf, next_marker, final_marker, i, calls) ==
    IF next_marker + i - 1 >= final_marker + 1 THEN Ok(<<>>, calls)
    ELSE LET version == Pow2(next_marker + i - 1)
             o == verify_nonexistence(d, "Fresh", version,
                                      pf.future_marker_vrf_proofs[i],
                                      pf.non_existence_of_future_marker_proofs[i])
             c == Call("verify_nonexistence", "future_marker", "Fresh", version,
                       NoCommitment, None, o)
         IN  IF o # "Ok"
             THEN HistoryProofErr("Non-existence of future marker proof does not verify",
                                  Append(calls, c))
             ELSE VerifyFutureMarkersV1(d, pf, next_marker, final_marker, i + 1,
                                        Append(calls, c))

\* overflow_checks: the build panics on u64 overflow instead of wrapping
\* final_marker + 1 - next_marker in Z; a negative number stands for the
\* wrapped u64 2^64 + n
ExpectedNumFutureMarkerProofs(final_marker, next_marker) ==
    final_marker + 1 - next_marker

key_history_verify(d, epoch, pf, p, overflow_checks) ==
    LET ups == pf.update_proofs
        num_proofs == Len(ups)
        updates == VerifyUpdateProofsV1(d, ups, p, 1, 0, None, <<>>, <<>>)
        last_version == updates.last_version
        next_marker == get_marker_version_log2(last_version) + 1
        final_marker == get_marker_version_log2(epoch)
        expected_num_until_marker_proofs ==
            WrappingSub(WrappingSub(WrappingShl1(next_marker), last_version), 1)
        until == VerifyUntilMarkers(d, pf, last_version, next_marker, 1, updates.calls)
        expected_num_future_marker_proofs ==
            ExpectedNumFutureMarkerProofs(final_marker, next_marker)
        future == VerifyFutureMarkersV1(d, pf, next_marker, final_marker, 1, until.calls)
    IN  IF num_proofs = 0
        THEN EmptyProofResult
        ELSE IF overflow_checks /\ ContiguityOverflows(ups)
        THEN Panic("attempt to add with overflow", <<>>)
        ELSE IF VersionsNotContiguous(ups)
        THEN HistoryProofErr("Update proofs should be ordered consecutively and in decreasing order", <<>>)
        ELSE IF updates.tag # "Ok" THEN updates
        ELSE IF overflow_checks /\ (last_version = 0 \/ epoch = 0)
        THEN Panic("attempt to subtract with overflow", updates.calls)
        ELSE IF overflow_checks /\ next_marker >= WordBits
        THEN Panic("attempt to shift left with overflow", updates.calls)
        ELSE IF expected_num_until_marker_proofs # Len(pf.until_marker_vrf_proofs)
        THEN HistoryProofErr("Expected until-marker proofs", updates.calls)
        ELSE IF Len(pf.until_marker_vrf_proofs) # Len(pf.non_existence_until_marker_proofs)
        THEN HistoryProofErr("Expected equal number of until-marker proofs", updates.calls)
        ELSE IF until.tag # "Ok" THEN until
        ELSE IF overflow_checks /\ expected_num_future_marker_proofs < 0
        THEN Panic("attempt to subtract with overflow", until.calls)
        ELSE IF expected_num_future_marker_proofs # Len(pf.future_marker_vrf_proofs)
        THEN HistoryProofErr("Expected future-marker proofs", until.calls)
        ELSE IF Len(pf.future_marker_vrf_proofs) # Len(pf.non_existence_of_future_marker_proofs)
        THEN HistoryProofErr("Expected equal number of future-marker proofs", until.calls)
        ELSE IF future.tag # "Ok" THEN future
        ELSE Ok(updates.results, future.calls)

(***************************************************************************)
(* The arguments of a call.                                                *)
(*                                                                         *)
(* update_proofs carries any list of at most MaxProofs versions.  For a    *)
(* list that passes the contiguity check, the other fields of the proof    *)
(* and the directory behind root_hash are those of a directory that holds  *)
(* the label's versions up to the highest one sent, changed in at most one *)
(* place (Deviations: another directory, or a field of the proof that is   *)
(* not what that directory serves).  For a list that fails the check,      *)
(* which both verifiers return on before reading any other field, they are *)
(* left as the directory serves them.                                      *)
(***************************************************************************)
VersionLists == UNION {[1..n -> 0..MaxVersion] : n \in 0..MaxProofs}

Contiguous(versions) ==
    /\ Len(versions) > 0
    /\ \A i \in 2..Len(versions) : versions[i] + 1 = versions[i - 1]

UpdateProofOf(style, v) ==
    [version |-> v,
     epoch |-> EpochOf(style, v),
     value |-> ValueOf(v),
     existence_vrf_proof |-> "good",
     existence_proof |-> "good",
     commitment_nonce |-> "good",
     previous_version_vrf_proof |-> IF v > 1 THEN "good" ELSE "None",
     previous_version_proof |-> IF v > 1 THEN "good" ELSE "None"]

Blobs(n) == [i \in 1..n |-> "good"]

\* the proof a directory of the given style serves for the versions
ServedProof(style, versions, epoch) ==
    LET lo == IF Contiguous(versions) THEN versions[Len(versions)] ELSE 0
        hi == IF Contiguous(versions) THEN versions[1] ELSE 0
        markers == get_marker_versions(lo, hi, epoch)
        until == Pow2(get_marker_version_log2(hi) + 1) - hi - 1
    IN  [update_proofs |-> [i \in 1..Len(versions) |-> UpdateProofOf(style, versions[i])],
         past_marker_vrf_proofs |-> Blobs(Len(markers.past)),
         existence_of_past_marker_proofs |-> Blobs(Len(markers.past)),
         until_marker_vrf_proofs |-> Blobs(until),
         non_existence_until_marker_proofs |-> Blobs(until),
         future_marker_vrf_proofs |-> Blobs(Len(markers.future)),
         non_existence_of_future_marker_proofs |-> Blobs(Len(markers.future))]

UpdateBlobFields ==
    {"existence_vrf_proof", "existence_proof", "commitment_nonce",
     "previous_version_vrf_proof", "previous_version_proof"}

OptionalFields == {"previous_version_vrf_proof", "previous_version_proof"}

MarkerFields ==
    {"past_marker_vrf_proofs", "existence_of_past_marker_proofs",
     "until_marker_vrf_proofs", "non_existence_until_marker_proofs",
     "future_marker_vrf_proofs", "non_existence_of_future_marker_proofs"}

Deviation(kind, i, field, x) == [kind |-> kind, i |-> i, field |-> field, x |-> x]

NoDeviation == Deviation("none", 0, "", 0)

MarkerDeviations ==
    {Deviation("marker_len", 0, f, x) : f \in MarkerFields, x \in {-1, 1}}
    \cup {Deviation("marker_blob", i, f, 0) : i \in 1..2, f \in MarkerFields}

Deviations(versions) ==
    IF Len(versions) = 0 THEN {NoDeviation} \cup MarkerDeviations
    ELSE IF ~Contiguous(versions) THEN {NoDeviation}
    ELSE LET n == Len(versions) IN
         {NoDeviation} \cup MarkerDeviations
         \cup {Deviation("style", 0, s, 0) : s \in {"tied", "reversed"}}
         \cup {Deviation("directory", 0, "", x) : x \in 0..MaxVersion}
         \cup {Deviation("epoch", i, "", x) : i \in 1..n, x \in 0..MaxEpoch}
         \cup {Deviation("redacted", i, "", x) : i \in 1..n, x \in 0..MaxEpoch}
         \cup {Deviation("value", i, "", x) : i \in 1..n, x \in {0, 1}}
         \cup {Deviation("blob", i, f, 0) : i \in 1..n, f \in UpdateBlobFields}
         \cup {Deviation("drop", i, f, 0) : i \in 1..n, f \in OptionalFields}

DirectoryFor(versions, dev) ==
    [n |-> IF dev.kind = "directory" THEN dev.x
           ELSE IF Contiguous(versions) THEN versions[1] ELSE 0,
     style |-> IF dev.kind = "style" THEN dev.field ELSE "strict"]

ProofFor(versions, epoch, dev) ==
    LET served == ServedProof(IF dev.kind = "style" THEN dev.field ELSE "strict",
                              versions, epoch)
        u == served.update_proofs[dev.i]
        m == served[dev.field]
    IN  CASE dev.kind = "epoch" ->
               [served EXCEPT !.update_proofs[dev.i].epoch = dev.x]
          [] dev.kind = "redacted" ->
               [served EXCEPT !.update_proofs[dev.i].epoch = dev.x,
                              !.update_proofs[dev.i].value = TOMBSTONE]
          [] dev.kind = "value" ->
               [served EXCEPT !.update_proofs[dev.i].value =
                    IF dev.x = 0 THEN TOMBSTONE ELSE ValueOf(u.version + 1)]
          [] dev.kind = "blob" ->
               [served EXCEPT !.update_proofs[dev.i][dev.field] = "bad"]
          [] dev.kind = "drop" ->
               [served EXCEPT !.update_proofs[dev.i][dev.field] = "None"]
          [] dev.kind = "marker_len" ->
               [served EXCEPT ![dev.field] =
                    IF dev.x = 1 THEN Append(m, "good")
                    ELSE IF Len(m) = 0 THEN m ELSE SubSeq(m, 1, Len(m) - 1)]
          [] dev.kind = "marker_blob" ->
               [served EXCEPT ![dev.field] =
                    IF dev.i <= Len(m) THEN [m EXCEPT ![dev.i] = "bad"] ELSE m]
          [] OTHER -> served

NoResult == [tag |-> "None", kind |-> "", msg |-> "", results |-> <<>>, calls |-> <<>>]

\* no helper function is applied on its own
NoFunctionCall == callee = "none" /\ arguments = <<>> /\ returned = <<>>

Init ==
    /\ NoFunctionCall
    /\ current_epoch \in 0..MaxEpoch
    /\ params \in HistoryVerificationParams
    /\ \E versions \in VersionLists :
         \E dev \in Deviations(versions) :
            /\ proof = ProofFor(versions, current_epoch, dev)
            /\ dir = DirectoryFor(versions, dev)
    /\ op = "none"
    /\ ret = NoResult
    /\ stdout = <<>>

KeyHistoryVerify ==
    /\ op = "none"
    /\ \E overflow_checks \in BOOLEAN :
         ret' = key_history_verify(dir, current_epoch, proof, params, overflow_checks)
    /\ op' = "key_history_verify"
    /\ UNCHANGED <<current_epoch, params, proof, dir, stdout>>
    /\ UNCHANGED <<callee, arguments, returned>>

KeyHistoryVerifyV2 ==
    /\ op = "none"
    /\ \E overflow_checks \in BOOLEAN :
         ret' = key_history_verify_v2(dir, current_epoch, proof, params, overflow_checks)
    /\ stdout' = Append(stdout, PrintedParams(params))
    /\ op' = "key_history_verify_v2"
    /\ UNCHANGED <<current_epoch, params, proof, dir>>
    /\ UNCHANGED <<callee, arguments, returned>>

Next == KeyHistoryVerify \/ KeyHistoryVerifyV2

Spec == Init /\ [][Next]_vars

(***************************************************************************)
(* The verifiers applied to versions and epochs at the ends of the u64     *)
(* range: proofs of one or two updates that a directory with all versions  *)
(* up to u64::MAX serves, with marker sequences of up to MaxWideMarkers    *)
(* entries (far fewer than 2^63, as any sequence held in memory is).       *)
(***************************************************************************)
WideVersions == {0, 1, Pow2(WordBits - 1), U64_MAX - 1, U64_MAX}

WideVersionLists == UNION {[1..n -> WideVersions] : n \in 1..2}

WideEpochs == {1, Pow2(WordBits - 1), U64_MAX}

WideProofFor(versions, epoch, num_until, num_future) ==
    [ServedProof("strict", versions, epoch) EXCEPT
        !.until_marker_vrf_proofs = Blobs(num_until),
        !.non_existence_until_marker_proofs = Blobs(num_until),
        !.future_marker_vrf_proofs = Blobs(num_future),
        !.non_existence_of_future_marker_proofs = Blobs(num_future)]

InitU64 ==
    /\ NoFunctionCall
    /\ current_epoch \in WideEpochs
    /\ params \in HistoryVerificationParams
    /\ \E versions \in WideVersionLists, num_until \in 0..MaxWideMarkers,
          num_future \in 0..MaxWideMarkers :
         proof = WideProofFor(versions, current_epoch, num_until, num_future)
    /\ dir = [n |-> U64_MAX, style |-> "strict"]
    /\ op = "none"
    /\ ret = NoResult
    /\ stdout = <<>>

SpecU64 == InitU64 /\ [][Next]_vars

(***************************************************************************)
(* get_marker_versions applied on its own to any start_version <=          *)
(* end_version and any epoch.                                              *)
(***************************************************************************)
\* no verifier is called
NoVerifierCall ==
    /\ current_epoch = 0
    /\ params = [variant |-> "Default", historyParams |-> Complete]
    /\ proof = ServedProof("strict", <<>>, 0)
    /\ dir = [n |-> 0, style |-> "strict"]
    /\ op = "none"
    /\ ret = NoResult
    /\ stdout = <<>>

history_vars == <<current_epoch, params, proof, dir, op, ret, stdout>>

MarkerArguments ==
    {a \in [start_version : 1..MaxMarkerVersion, end_version : 1..MaxMarkerVersion,
            epoch : 0..MaxMarkerVersion] : a.start_version <= a.end_version}

InitMarkers ==
    /\ NoVerifierCall
    /\ callee = "none"
    /\ arguments \in MarkerArguments
    /\ returned = <<>>

GetMarkerVersions ==
    /\ callee = "none"
    /\ callee' = "get_marker_versions"
    /\ returned' = get_marker_versions(arguments.start_version, arguments.end_version,
                                       arguments.epoch)
    /\ UNCHANGED <<arguments, history_vars>>

NextMarkers == GetMarkerVersions

SpecMarkers == InitMarkers /\ [][NextMarkers]_vars

(***************************************************************************)
(* NodeLabel (src/node_state.rs): a bit string of len bits, kept in the    *)
(* low len bits of val, most significant bit first.  Labels are at most    *)
(* MaxLabelLen bits long, so no shift reaches the width of val.            *)
(***************************************************************************)
NodeLabel(val, len) == [val |-> val, len |-> len]

\* the labels of the tree: val holds no bit above its len bits
NodeLabels ==
    {l \in [val : 0..(Pow2(MaxLabelLen) - 1), len : 0..MaxLabelLen] : l.val < Pow2(l.len)}

\* (self.val >> (self.len - index - 1)) & 1, and 0 on an out of range index
get_bit_at(l, index) ==
    IF index >= l.len THEN 0
    ELSE (l.val \div Pow2(l.len - index - 1)) % 2

get_prefix(l, len) ==
    IF len >= l.len THEN l
    ELSE IF len = 0 THEN NodeLabel(0, 0)
    ELSE NodeLabel(l.val \div Pow2(l.len - len), len)

\* while prefix_len <= shorter_len && bits equal { prefix_len += 1 }
RECURSIVE PrefixLen(_, _, _, _)
PrefixLen(l, other, shorter_len, prefix_len) ==
    IF prefix_len <= shorter_len /\ get_bit_at(l, prefix_len) = get_bit_at(other, prefix_len)
    THEN PrefixLen(l, other, shorter_len, prefix_len + 1)
    ELSE prefix_len

get_longest_common_prefix(l, other) ==
    LET shorter_len == IF l.len < other.len THEN l.len ELSE other.len
    IN  get_prefix(l, PrefixLen(l, other, shorter_len, 0))

\* get_dir without the comparison of the prefix of other with self
get_dir_unchecked(l, other) ==
    IF l.len >= other.len THEN None
    ELSE Some(get_bit_at(other, l.len))

\* Direction::None or Direction::Some(bit)
get_dir(l, other) ==
    IF l.len >= other.len THEN None
    ELSE IF get_prefix(other, l.len) # l THEN None
    ELSE Some(get_bit_at(other, l.len))

get_longest_common_prefix_and_dirs(l, other) ==
    LET lcp_label == get_longest_common_prefix(l, other)
    IN  <<lcp_label, get_dir(lcp_label, other), get_dir(lcp_label, l)>>

InitNodeLabel ==
    /\ NoVerifierCall
    /\ callee = "none"
    /\ arguments \in [self : NodeLabels, other : NodeLabels]
    /\ returned = <<>>

GetLongestCommonPrefix ==
    /\ callee = "none"
    /\ callee' = "get_longest_common_prefix"
    /\ returned' = get_longest_common_prefix(arguments.self, arguments.other)
    /\ UNCHANGED <<arguments, history_vars>>

GetLongestCommonPrefixAndDirs ==
    /\ callee = "none"
    /\ callee' = "get_longest_common_prefix_and_dirs"
    /\ returned' = get_longest_common_prefix_and_dirs(arguments.self, arguments.other)
    /\ UNCHANGED <<arguments, history_vars>>

GetDir ==
    /\ callee = "none"
    /\ callee' = "get_dir"
    /\ returned' = get_dir(arguments.self, arguments.other)
    /\ UNCHANGED <<arguments, history_vars>>

NextNodeLabel == GetLongestCommonPrefix \/ GetLongestCommonPrefixAndDirs \/ GetDir

SpecNodeLabel == InitNodeLabel /\ [][NextNodeLabel]_vars

(***************************************************************************)
(* Properties.                                                             *)
(***************************************************************************)
Ups == proof.update_proofs

Called == op # "none"

Rejected == ret.tag = "Err" /\ ret.kind = "HistoryProof"

LowestVersion == CHOOSE v \in {Ups[i].version : i \in 1..Len(Ups)} :
                    \A i \in 1..Len(Ups) : v <= Ups[i].version

HighestVersion == CHOOSE v \in {Ups[i].version : i \in 1..Len(Ups)} :
                     \A i \in 1..Len(Ups) : v >= Ups[i].version

\* the calls made for the update proofs themselves, one per verified update
UpdateCalls == {j \in 1..Len(ret.calls) : ret.calls[j].site = "update"}

EpochMessage ==
    "Version numbers for updates are decreasing, but their corresponding epochs are not decreasing"

HonestDirectory == dir.style = "strict" /\ dir.n <= current_epoch

RemoveUpdate(pf, i) ==
    [pf EXCEPT !.update_proofs =
        SubSeq(pf.update_proofs, 1, i - 1)
        \o SubSeq(pf.update_proofs, i + 1, Len(pf.update_proofs))]

\* C1: whenever key_history_verify or key_history_verify_v2 returns Ok, the
\* returned list has one entry per update proof, and its i-th entry is the
\* epoch, version and value of update_proofs[i], in the order of the input.
C1_ResultsMirrorUpdateProofs ==
    ret.tag = "Ok" =>
        /\ Len(ret.results) = Len(Ups)
        /\ \A i \in 1..Len(Ups) :
              ret.results[i] = [epoch |-> Ups[i].epoch,
                                version |-> Ups[i].version,
                                value |-> Ups[i].value]

C1_Witness ==
    /\ op = "key_history_verify_v2"
    /\ ret.tag = "Ok"
    /\ Len(Ups) = 3
    /\ Ups[1].epoch # Ups[1].version

\* C2: from a proof that key_history_verify_v2 accepts for an honest
\* directory, removing any single entry of update_proofs, with every other
\* field and argument unchanged, makes the verification fail.
C2_AnyRemovalIsRejected ==
    (op = "key_history_verify_v2" /\ ret.tag = "Ok" /\ HonestDirectory) =>
        \A i \in 1..Len(Ups) : \A overflow_checks \in BOOLEAN :
            key_history_verify_v2(dir, current_epoch, RemoveUpdate(proof, i),
                                  params, overflow_checks).tag # "Ok"

\* C3: in both verifiers, a list in which some update_proofs[i].version + 1
\* differs from update_proofs[i-1].version is rejected with a HistoryProof
\* error before any base verifier has been called.
C3_NonContiguousRejectedFirst ==
    (Called /\ \E i \in 2..Len(Ups) : Ups[i].version + 1 # Ups[i - 1].version) =>
        Rejected /\ ret.calls = <<>>

C3_Witness ==
    /\ op = "key_history_verify"
    /\ Len(Ups) = 2
    /\ Ups[1].version = 1
    /\ Ups[2].version = 2
    /\ Rejected
    /\ ret.calls = <<>>

\* C4: every proof that a verifier accepts has strictly decreasing epochs:
\* update_proofs[i].epoch < update_proofs[i-1].epoch for all i > 0.
C4_AcceptedEpochsStrictlyDecrease ==
    ret.tag = "Ok" =>
        \A i \in 2..Len(Ups) : Ups[i].epoch < Ups[i - 1].epoch

C5_WitnessEqualAccepted ==
    /\ op = "key_history_verify"
    /\ ret.tag = "Ok"
    /\ Len(Ups) >= 2
    /\ Ups[2].epoch = Ups[1].epoch

C6_CompleteNeedsVersionOne ==
    (/\ op = "key_history_verify_v2"
     /\ params.historyParams.kind = "Complete"
     /\ Len(Ups) > 0
     /\ LowestVersion # 1) => Rejected

C6_Witness ==
    /\ op = "key_history_verify_v2"
    /\ params.historyParams.kind = "Complete"
    /\ params.variant = "AllowMissingValues"
    /\ Len(Ups) = 2
    /\ LowestVersion = 2
    /\ Rejected
    /\ ret.msg = "Expected start version to be 1 given that it is a complete history"

\* C7: key_history_verify (v1) called with history params Complete rejects
\* every proof whose lowest update version is not 1 (stated here for the
\* calls whose root_hash is that of an honest directory).
C7_V1CompleteNeedsVersionOne ==
    (/\ op = "key_history_verify"
     /\ HonestDirectory
     /\ params.historyParams.kind = "Complete"
     /\ Len(Ups) > 0
     /\ LowestVersion # 1) => ret.tag # "Ok"

\* C8: key_history_verify_v2 with MostRecent(n) rejects every proof with
\* more than n update proofs, rejects a proof with fewer than n unless its
\* lowest version is 1, and a proof with exactly n passes the recency check
\* whatever its lowest version.
C8_MostRecentWindow ==
    (op = "key_history_verify_v2" /\ params.historyParams.kind = "MostRecent") =>
        LET n == params.historyParams.recency
        IN  /\ Len(Ups) > n => Rejected
            /\ (Len(Ups) < n /\ (Len(Ups) = 0 \/ LowestVersion # 1)) => Rejected
            /\ Len(Ups) = n =>
                  ret.msg \notin
                     {"Expected start version to be 1 given that the number of proofs returned was less than the recency parameter",
                      "Expected at most recency update proofs"}

C8_Witness ==
    /\ op = "key_history_verify_v2"
    /\ params.historyParams = MostRecent(2)
    /\ Len(Ups) = 2
    /\ LowestVersion = 2
    /\ ret.tag = "Ok"

C8_WitnessFewer ==
    /\ op = "key_history_verify_v2"
    /\ params.historyParams = MostRecent(2)
    /\ Len(Ups) = 1
    /\ LowestVersion = 2
    /\ Rejected

\* C9: key_history_verify_v2 rejects, with a HistoryProof error, every proof
\* whose lowest update version is 0 and every proof whose highest update
\* version exceeds current_epoch, whatever the history params.
C9_VersionRange ==
    (/\ op = "key_history_verify_v2"
     /\ Len(Ups) > 0
     /\ (LowestVersion = 0 \/ HighestVersion > current_epoch)) => Rejected

C9_Witness ==
    /\ op = "key_history_verify_v2"
    /\ Len(Ups) = 2
    /\ LowestVersion = 1
    /\ HighestVersion > current_epoch
    /\ ret.msg = "Computed end version for the key history should not exceed current epoch"

\* C10: both verifiers reject an empty update_proofs list with a
\* HistoryProof error and without calling a base verifier, whatever the
\* marker-proof sequences hold.
C10_EmptyRejected ==
    (Called /\ Len(Ups) = 0) => Rejected /\ ret.calls = <<>>

C10_Witness ==
    /\ op = "key_history_verify"
    /\ Len(Ups) = 0
    /\ Len(proof.future_marker_vrf_proofs) > 0
    /\ Rejected

\* the powers of two, counted without the marker operators
IsPowerOfTwo(p) == \E k \in 0..p : Pow2(k) = p

PowersOfTwoBetween(lo, hi) == {p \in lo..hi : p >= 1 /\ IsPowerOfTwo(p)}

\* the structural, range and policy checks of key_history_verify_v2
StructureValid ==
    /\ Len(Ups) > 0
    /\ \A i \in 2..Len(Ups) : Ups[i].version + 1 = Ups[i - 1].version
    /\ LowestVersion # 0
    /\ HighestVersion <= current_epoch
    /\ params.historyParams.kind = "Complete" => LowestVersion = 1
    /\ params.historyParams.kind = "MostRecent" =>
          /\ Len(Ups) <= params.historyParams.recency
          /\ Len(Ups) < params.historyParams.recency => LowestVersion = 1

MarkerCountsMatch ==
    LET past == Cardinality(PowersOfTwoBetween(LowestVersion, HighestVersion))
        future == Cardinality(PowersOfTwoBetween(HighestVersion + 1, current_epoch))
    IN  /\ Len(proof.past_marker_vrf_proofs) = past
        /\ Len(proof.existence_of_past_marker_proofs) = past
        /\ Len(proof.future_marker_vrf_proofs) = future
        /\ Len(proof.non_existence_of_future_marker_proofs) = future

\* C11: key_history_verify_v2 returns a HistoryProof error, with no base
\* verifier called, whenever one of the four marker-proof sequences has a
\* length other than the number of past / future markers of (start_v, end_v,
\* current_epoch); and whenever it has called a base verifier, every
\* structural, range, policy and count check had passed.
C11_MarkerCountsCheckedFirst ==
    op = "key_history_verify_v2" =>
        /\ (Len(Ups) > 0 /\ ~MarkerCountsMatch) => (Rejected /\ ret.calls = <<>>)
        /\ ret.calls # <<>> => (StructureValid /\ MarkerCountsMatch)

C11_Witness ==
    /\ op = "key_history_verify_v2"
    /\ StructureValid
    /\ Len(proof.past_marker_vrf_proofs) = 2
    /\ Len(proof.future_marker_vrf_proofs) = 2
    /\ Cardinality(PowersOfTwoBetween(HighestVersion + 1, current_epoch)) = 1
    /\ Rejected
    /\ ret.msg = "Expected future marker proofs"
    /\ ret.calls = <<>>

\* the calls for the leaves of the updates' own versions, in call order: the
\* k-th of them is the call made for update_proofs[k]
IsUpdateCall(c) == c.site = "update"

UpdateCallSeq == SelectSeq(ret.calls, IsUpdateCall)

\* the same call made again with the Default variant of the params
ResultUnderDefault(overflow_checks) ==
    LET default == [params EXCEPT !.variant = "Default"]
    IN  IF op = "key_history_verify_v2"
        THEN key_history_verify_v2(dir, current_epoch, proof, default, overflow_checks)
        ELSE key_history_verify(dir, current_epoch, proof, default, overflow_checks)

\* C12: for every update the verifiers reach, the leaf of its version is
\* checked by verify_existence alone exactly when the params variant is
\* AllowMissingValues and its value is TOMBSTONE, and otherwise by
\* verify_existence_with_val with its value, epoch and commitment nonce; a
\* proof with a tombstoned update that is accepted under AllowMissingValues
\* is rejected under Default with the commitment-check error.
C12_TombstonePolicy ==
    Called =>
        /\ \A k \in 1..Len(UpdateCallSeq) :
              LET c == UpdateCallSeq[k]
                  u == Ups[k]
              IN  /\ c.version = u.version
                  /\ c.freshness = "Fresh"
                  /\ IF params.variant = "AllowMissingValues" /\ u.value = TOMBSTONE
                     THEN c.fn = "verify_existence"
                     ELSE /\ c.fn = "verify_existence_with_val"
                          /\ c.commitment = Commit(u.value, u.commitment_nonce)
                          /\ c.epoch = Some(u.epoch)
        /\ (/\ ret.tag = "Ok"
            /\ params.variant = "AllowMissingValues"
            /\ \E i \in 1..Len(Ups) : Ups[i].value = TOMBSTONE) =>
              \A overflow_checks \in BOOLEAN :
                  /\ ResultUnderDefault(overflow_checks).tag = "Err"
                  /\ ResultUnderDefault(overflow_checks).kind = "CommitmentMismatch"

C12_Witness ==
    /\ Called
    /\ ret.tag = "Ok"
    /\ params.variant = "AllowMissingValues"
    /\ Len(Ups) = 2
    /\ Ups[1].value # TOMBSTONE
    /\ Ups[2].value = TOMBSTONE
    /\ UpdateCallSeq[1].fn = "verify_existence_with_val"
    /\ UpdateCallSeq[2].fn = "verify_existence"

C12_WitnessDefault ==
    /\ Called
    /\ params.variant = "Default"
    /\ Len(Ups) = 1
    /\ Ups[1].value = TOMBSTONE
    /\ Len(UpdateCallSeq) = 1
    /\ UpdateCallSeq[1].fn = "verify_existence_with_val"
    /\ ret.kind = "CommitmentMismatch"

MissingPreviousMessages ==
    {"Missing membership proof for previous version",
     "Missing VRF proof for previous version"}

\* C13: in both verifiers the first failing check ends the call with an
\* error: only the last base-verifier call of a run can have failed, a failed
\* base-verifier call makes the call return Err, a missing previous-version
\* proof is reported right after the call for that update's own leaf, and a
\* call that does not return Ok returns no VerifyResult at all.
C13_FailFast ==
    Called =>
        /\ \A j \in 1..Len(ret.calls) :
              ret.calls[j].outcome # "Ok" => (j = Len(ret.calls) /\ ret.tag = "Err")
        /\ (ret.tag = "Err" /\ ret.msg \in MissingPreviousMessages) =>
              /\ Len(ret.calls) > 0
              /\ ret.calls[Len(ret.calls)].site = "update"
              /\ LET u == Ups[Len(UpdateCallSeq)]
                 IN  /\ u.version > 1
                     /\ "None" \in {u.previous_version_proof, u.previous_version_vrf_proof}
        /\ ret.tag # "Ok" => ret.results = <<>>
        /\ ret.tag = "Ok" => Len(UpdateCallSeq) = Len(Ups)

C13_Witness ==
    /\ Called
    /\ Len(Ups) = 3
    /\ ret.tag = "Err"
    /\ Len(ret.calls) = 2
    /\ ret.calls[2].site = "previous"
    /\ ret.calls[2].outcome # "Ok"
    /\ ret.results = <<>>

\* C14: a call of key_history_verify or key_history_verify_v2 performs no
\* I/O: in particular it prints nothing, so its only effect is its result.
C14_NoOutput ==
    Called => stdout = <<>>

SeqToSet(q) == {q[i] : i \in 1..Len(q)}

Ascending(q) == \A i \in 2..Len(q) : q[i - 1] < q[i]

Bits(l) == [i \in 1..l.len |-> get_bit_at(l, i - 1)]

IsPrefix(p, q) == Len(p) <= Len(q) /\ SubSeq(q, 1, Len(p)) = p

\* C16: get_longest_common_prefix(a, b) is the longest common prefix of the
\* bit strings of a and b: a prefix of both (so no longer than the shorter
\* of them), with no longer common prefix, and a itself when b = a.
C16_LongestCommonPrefix ==
    callee = "get_longest_common_prefix" =>
        LET a == arguments.self
            b == arguments.other
        IN  /\ returned \in NodeLabels
            /\ IsPrefix(Bits(returned), Bits(a))
            /\ IsPrefix(Bits(returned), Bits(b))
            /\ \A n \in (returned.len + 1)..MaxLabelLen :
                  ~(/\ n <= a.len
                    /\ n <= b.len
                    /\ SubSeq(Bits(a), 1, n) = SubSeq(Bits(b), 1, n))
            /\ a = b => returned = a

C17_WitnessNotPrefix ==
    /\ callee = "get_dir"
    /\ arguments.self = NodeLabel(1, 2)
    /\ arguments.other = NodeLabel(5, 3)
    /\ returned = None

IsPastMarkerCall(c) == c.site = "past_marker"

IsFutureMarkerCall(c) == c.site = "future_marker"

CallVersions(calls) == {calls[j].version : j \in 1..Len(calls)}

AllGood(blobs) == \A i \in 1..Len(blobs) : blobs[i] = "good"

\* the place in the call log of the call for the leaf of update_proofs[k]
UpdateCallAt(k) ==
    CHOOSE j \in 1..Len(ret.calls) :
        /\ ret.calls[j].site = "update"
        /\ Cardinality({i \in 1..j : ret.calls[i].site = "update"}) = k

\* C18: key_history_verify_v2 returns Ok only if, against the directory of
\* root_hash, each update passed the Fresh existence check at its version,
\* each update with version > 1 passed the Stale existence check at version
\* - 1, each past marker passed verify_existence (Fresh) with the proof pair
\* of its index, and each future marker passed verify_nonexistence (Fresh)
\* with the proof pair of its index.
C18_OkOnlyIfAllChecksPassed ==
    (op = "key_history_verify_v2" /\ ret.tag = "Ok") =>
        LET past == SelectSeq(ret.calls, IsPastMarkerCall)
            future == SelectSeq(ret.calls, IsFutureMarkerCall)
            past_markers == PowersOfTwoBetween(LowestVersion, HighestVersion)
            future_markers == PowersOfTwoBetween(HighestVersion + 1, current_epoch)
        IN  /\ \A j \in 1..Len(ret.calls) : ret.calls[j].outcome = "Ok"
            /\ \A k \in 1..Len(Ups) :
                  /\ \E j \in 1..Len(ret.calls) :
                        /\ ret.calls[j].site = "update"
                        /\ ret.calls[j].freshness = "Fresh"
                        /\ ret.calls[j].version = Ups[k].version
                  /\ HasLeaf(dir, "Fresh", Ups[k].version)
                  /\ Ups[k].existence_vrf_proof = "good"
                  /\ Ups[k].existence_proof = "good"
                  /\ Ups[k].version > 1 =>
                        /\ \E j \in 1..Len(ret.calls) :
                              /\ ret.calls[j].site = "previous"
                              /\ ret.calls[j].freshness = "Stale"
                              /\ ret.calls[j].version = Ups[k].version - 1
                        /\ HasLeaf(dir, "Stale", Ups[k].version - 1)
                        /\ Ups[k].previous_version_vrf_proof = "good"
                        /\ Ups[k].previous_version_proof = "good"
            /\ Len(past) = Cardinality(past_markers)
            /\ CallVersions(past) = past_markers
            /\ \A i \in 1..Len(past) :
                  /\ past[i].fn = "verify_existence"
                  /\ past[i].freshness = "Fresh"
                  /\ i > 1 => past[i - 1].version < past[i].version
                  /\ HasLeaf(dir, "Fresh", past[i].version)
            /\ AllGood(proof.past_marker_vrf_proofs)
            /\ AllGood(proof.existence_of_past_marker_proofs)
            /\ Len(future) = Cardinality(future_markers)
            /\ CallVersions(future) = future_markers
            /\ \A i \in 1..Len(future) :
                  /\ future[i].fn = "verify_nonexistence"
                  /\ future[i].freshness = "Fresh"
                  /\ i > 1 => future[i - 1].version < future[i].version
                  /\ ~HasLeaf(dir, "Fresh", future[i].version)
            /\ AllGood(proof.future_marker_vrf_proofs)
            /\ AllGood(proof.non_existence_of_future_marker_proofs)

C18_Witness ==
    /\ op = "key_history_verify_v2"
    /\ ret.tag = "Ok"
    /\ Len(Ups) = 3
    /\ Len(SelectSeq(ret.calls, IsPastMarkerCall)) = 2
    /\ Len(SelectSeq(ret.calls, IsFutureMarkerCall)) = 1

\* C19: an update with version > 1 whose own leaf has been verified and
\* whose previous_version_proof or previous_version_vrf_proof is absent
\* ends the call with a HistoryProof error and no further base-verifier
\* call; an update with version <= 1 whose own leaf has been verified is
\* followed by no previous-version check at all, neither a stale-leaf call
\* nor an error for an absent previous-version proof.
C19_PreviousVersionProofs ==
    Called =>
        \A k \in 1..Len(UpdateCallSeq) :
            LET u == Ups[k]
                j == UpdateCallAt(k)
                absent == "None" \in {u.previous_version_proof, u.previous_version_vrf_proof}
            IN  ret.calls[j].outcome = "Ok" =>
                    /\ (u.version > 1 /\ absent) =>
                          /\ Rejected
                          /\ ret.msg \in MissingPreviousMessages
                          /\ j = Len(ret.calls)
                    /\ (u.version > 1 /\ ~absent) =>
                          /\ j < Len(ret.calls)
                          /\ ret.calls[j + 1].site = "previous"
                    /\ u.version <= 1 =>
                          /\ j < Len(ret.calls) => ret.calls[j + 1].site # "previous"
                          /\ ret.msg \notin MissingPreviousMessages

C19_Witness ==
    /\ Called
    /\ Len(Ups) = 2
    /\ Ups[1].previous_version_vrf_proof = "None"
    /\ Ups[1].previous_version_proof = "good"
    /\ Len(ret.calls) = 1
    /\ ret.calls[1].outcome = "Ok"
    /\ Rejected
    /\ ret.msg = "Missing VRF proof for previous version"

C19_WitnessFirstVersion ==
    /\ Called
    /\ ret.tag = "Ok"
    /\ Len(Ups) = 1
    /\ Ups[1].version = 1
    /\ Ups[1].previous_version_proof = "bad"
    /\ Len(UpdateCallSeq) = 1

\* C20: every stale-leaf check is the one made for an update u with version
\* > 1 right after the check of u's own leaf: it is made at the Stale leaf
\* of version u.version - 1, with the commitment stale_azks_value() and with
\* the epoch u.epoch of the superseding update.
C20_StaleLeafCoordinate ==
    Called =>
        /\ \A j \in 1..Len(ret.calls) :
              ret.calls[j].site = "previous" =>
                  /\ j > 1
                  /\ ret.calls[j - 1].site = "update"
                  /\ LET u == Ups[Cardinality({i \in 1..j : ret.calls[i].site = "update"})]
                     IN  /\ u.version > 1
                         /\ ret.calls[j].fn = "verify_existence_with_commitment"
                         /\ ret.calls[j].freshness = "Stale"
                         /\ ret.calls[j].version = u.version - 1
                         /\ ret.calls[j].commitment = stale_azks_value
                         /\ ret.calls[j].epoch = Some(u.epoch)
        /\ ret.tag = "Ok" =>
              \A k \in 1..Len(Ups) :
                  Ups[k].version > 1 =>
                      LeafEpoch(dir, "Stale", Ups[k].version - 1) = Ups[k].epoch

C20_Witness ==
    /\ Called
    /\ ret.tag = "Ok"
    /\ Len(Ups) = 2
    /\ Ups[1].epoch # Ups[2].epoch
    /\ ret.calls[2].site = "previous"
    /\ ret.calls[2].epoch = Some(Ups[1].epoch)
    /\ ret.calls[4].site = "previous"
    /\ ret.calls[4].epoch = Some(Ups[2].epoch)

IsUntilMarkerCall(c) == c.site = "until_marker"

UntilCalls == SelectSeq(ret.calls, IsUntilMarkerCall)

FutureCalls == SelectSeq(ret.calls, IsFutureMarkerCall)

AllOk(calls) == \A j \in 1..Len(calls) : calls[j].outcome = "Ok"

\* key_history_verify has verified every update proof
V1UpdatesPassed ==
    /\ op = "key_history_verify"
    /\ Len(Ups) > 0
    /\ \A i \in 2..Len(Ups) : Ups[i].version + 1 = Ups[i - 1].version
    /\ Len(UpdateCallSeq) = Len(Ups)
    /\ \A j \in 1..Len(ret.calls) :
          ret.calls[j].site \in {"update", "previous"} => ret.calls[j].outcome = "Ok"
    /\ ret.msg \notin MissingPreviousMessages

\* 1 << next_marker_exp for last_version the highest update version
NextMarkerVersion == Pow2(FloorLog2(HighestVersion) + 1)

ExpectedUntilMarkers == NextMarkerVersion - HighestVersion - 1

UntilLengthsMatch ==
    /\ Len(proof.until_marker_vrf_proofs) = ExpectedUntilMarkers
    /\ Len(proof.non_existence_until_marker_proofs) = ExpectedUntilMarkers

\* C21: once key_history_verify (v1) has verified the update proofs (for
\* current_epoch >= 1), it returns a HistoryProof error without any
\* until-marker call unless both until-marker sequences have length
\* (1 << next_marker_exp) - last_version - 1; otherwise its i-th
\* until-marker call is verify_nonexistence (Fresh) at version last_version
\* + i, so the versions last_version + 1, ..., (1 << next_marker_exp) - 1
\* are checked in ascending order with the proof pairs of their index, all
\* of them before the call can succeed, and 1 << next_marker_exp never is.
C21_UntilMarkers ==
    (V1UpdatesPassed /\ current_epoch >= 1) =>
        /\ ~UntilLengthsMatch => (Rejected /\ UntilCalls = <<>> /\ FutureCalls = <<>>)
        /\ Len(UntilCalls) <= ExpectedUntilMarkers
        /\ \A i \in 1..Len(UntilCalls) :
              /\ UntilCalls[i].fn = "verify_nonexistence"
              /\ UntilCalls[i].freshness = "Fresh"
              /\ UntilCalls[i].version = HighestVersion + i
              /\ UntilCalls[i].version < NextMarkerVersion
              /\ UntilCalls[i].outcome = "Ok" =>
                    /\ proof.until_marker_vrf_proofs[i] = "good"
                    /\ proof.non_existence_until_marker_proofs[i] = "good"
                    /\ ~HasLeaf(dir, "Fresh", HighestVersion + i)
        /\ (ret.tag = "Ok" \/ FutureCalls # <<>>) =>
              (Len(UntilCalls) = ExpectedUntilMarkers /\ AllOk(UntilCalls))

C21_Witness ==
    /\ V1UpdatesPassed
    /\ ret.tag = "Ok"
    /\ HighestVersion = 2
    /\ Len(UntilCalls) = 1
    /\ UntilCalls[1].version = 3
    /\ FutureCalls # <<>>
    /\ FutureCalls[1].version = 4

C21_WitnessRejected ==
    /\ V1UpdatesPassed
    /\ current_epoch >= 1
    /\ HighestVersion = 2
    /\ Len(proof.until_marker_vrf_proofs) = 2
    /\ Rejected
    /\ ret.msg = "Expected until-marker proofs"

V1UntilMarkersPassed ==
    /\ V1UpdatesPassed
    /\ UntilLengthsMatch
    /\ Len(UntilCalls) = ExpectedUntilMarkers
    /\ AllOk(UntilCalls)

NextMarkerExp == FloorLog2(HighestVersion) + 1

\* the exponents p with next_marker_exp <= p <= floor(log2(current_epoch))
FutureExponents == {p \in NextMarkerExp..MaxEpoch : Pow2(p) <= current_epoch}

FutureLengthsMatch ==
    /\ Len(proof.future_marker_vrf_proofs) = Cardinality(FutureExponents)
    /\ Len(proof.non_existence_of_future_marker_proofs) = Cardinality(FutureExponents)

FutureCountRejected ==
    /\ Rejected
    /\ ret.msg \in {"Expected future-marker proofs",
                     "Expected equal number of future-marker proofs"}

FutureCallsInOrder ==
    /\ Len(FutureCalls) <= Cardinality(FutureExponents)
    /\ \A i \in 1..Len(FutureCalls) :
          /\ FutureCalls[i].fn = "verify_nonexistence"
          /\ FutureCalls[i].freshness = "Fresh"
          /\ FutureCalls[i].version = Pow2(NextMarkerExp + i - 1)
          /\ FutureCalls[i].outcome = "Ok" =>
                /\ proof.future_marker_vrf_proofs[i] = "good"
                /\ proof.non_existence_of_future_marker_proofs[i] = "good"
                /\ ~HasLeaf(dir, "Fresh", Pow2(NextMarkerExp + i - 1))
    /\ ret.tag = "Ok" =>
          (Len(FutureCalls) = Cardinality(FutureExponents) /\ AllOk(FutureCalls))

C22_WitnessRejected ==
    /\ V1UntilMarkersPassed
    /\ current_epoch >= 1
    /\ FloorLog2(current_epoch) + 1 >= NextMarkerExp
    /\ FutureCountRejected
    /\ Len(proof.future_marker_vrf_proofs) < Cardinality(FutureExponents)

LastCall == ret.calls[Len(ret.calls)]

LastCallFailed == Called /\ ret.calls # <<>> /\ LastCall.outcome # "Ok"

NonExistenceMessages ==
    {"Non-existence of next few proof does not verify",
     "Non-existence of future marker proof does not verify"}

\* C23: in both verifiers, the non-existence checks are those of the marker
\* loops (v1 until-markers, v1 and v2 future-markers), and a failure of one
\* is returned as a HistoryProof error whatever the base verifier's error
\* was; a failure of an update's existence check, of its stale-leaf check
\* or of a v2 past-marker existence check is returned with the base
\* verifier's own error kind.
C23_NonExistenceErrorsMapped ==
    /\ \A j \in 1..Len(ret.calls) :
          ret.calls[j].fn = "verify_nonexistence"
              <=> ret.calls[j].site \in {"until_marker", "future_marker"}
    /\ LastCallFailed =>
          /\ ret.tag = "Err"
          /\ LastCall.fn = "verify_nonexistence" =>
                (Rejected /\ ret.msg \in NonExistenceMessages)
          /\ LastCall.fn # "verify_nonexistence" =>
                (ret.kind = LastCall.outcome /\ ret.kind # "HistoryProof")

C23_Witness ==
    /\ op = "key_history_verify_v2"
    /\ LastCallFailed
    /\ LastCall.site = "future_marker"
    /\ LastCall.outcome = "VrfInvalid"
    /\ Rejected

C23_WitnessUntilMarker ==
    /\ op = "key_history_verify"
    /\ LastCallFailed
    /\ LastCall.site = "until_marker"
    /\ LastCall.outcome = "NonMembershipInvalid"
    /\ Rejected

C23_WitnessPastMarker ==
    /\ op = "key_history_verify_v2"
    /\ LastCallFailed
    /\ LastCall.site = "past_marker"
    /\ ret.kind = "MembershipInvalid"

\* the proof's newest update is older than the directory's newest version
StopsBelowLatest == Len(Ups) > 0 /\ Ups[1].version < dir.n

\* the proof passes every check before the first non-existence check
ReachesNonExistenceChecks ==
    /\ V1UpdatesPassed
    /\ UntilLengthsMatch
    /\ ExpectedUntilMarkers = 0 => FutureLengthsMatch

\* C24: against a directory whose Fresh versions are exactly 1..V with
\* V <= current_epoch, and base verifiers that accept no proof of a false
\* statement, key_history_verify (v1) accepts only a proof whose first
\* update has version V; a proof whose first update has a version L < V and
\* that passes the update and count checks is rejected with a HistoryProof
\* error by the first non-existence check, the one of version L + 1 (an
\* until-marker, or the future marker 1 << next_marker_exp when L + 1 is a
\* power of two).
C24_TailOmissionDetected ==
    (op = "key_history_verify" /\ HonestDirectory) =>
        /\ ret.tag = "Ok" => (Len(Ups) > 0 /\ Ups[1].version = dir.n)
        /\ (StopsBelowLatest /\ ReachesNonExistenceChecks) =>
              /\ Rejected
              /\ ret.msg \in NonExistenceMessages
              /\ LastCallFailed
              /\ LastCall.fn = "verify_nonexistence"
              /\ LastCall.version = Ups[1].version + 1
              /\ LastCall.site = IF ExpectedUntilMarkers = 0
                                 THEN "future_marker" ELSE "until_marker"

C24_Witness ==
    /\ op = "key_history_verify"
    /\ HonestDirectory
    /\ StopsBelowLatest
    /\ ReachesNonExistenceChecks
    /\ Len(Ups) = 2
    /\ dir.n = 3
    /\ Rejected
    /\ LastCall.site = "until_marker"

C24_WitnessFutureMarker ==
    /\ op = "key_history_verify"
    /\ HonestDirectory
    /\ StopsBelowLatest
    /\ ReachesNonExistenceChecks
    /\ Ups[1].version = 1
    /\ dir.n = 2
    /\ Rejected
    /\ LastCall.site = "future_marker"
    /\ LastCall.version = 2

C24_WitnessAccepted ==
    /\ op = "key_history_verify"
    /\ HonestDirectory
    /\ ret.tag = "Ok"
    /\ dir.n = 3
    /\ Len(Ups) = 3

\* C25: for every input of key_history_verify (v1) that reaches the
\* future-marker count with last_version >= 1 and current_epoch >= 1,
\* final_marker_exp + 1 - next_marker_exp is not below zero and the call
\* does not panic; with last_version = 4 and current_epoch = 1 it ends in
\* a returned HistoryProof error computed without underflow.
C25_NoUnderflow ==
    (V1UntilMarkersPassed /\ HighestVersion >= 1 /\ current_epoch >= 1) =>
        /\ ret.tag # "Panic"
        /\ ExpectedNumFutureMarkerProofs(get_marker_version_log2(current_epoch),
                                         get_marker_version_log2(HighestVersion) + 1) >= 0

\* the claim's own example, in a build without overflow checks
C25_ReachedWrapped ==
    /\ V1UntilMarkersPassed
    /\ HighestVersion = 4
    /\ current_epoch = 1
    /\ proof.future_marker_vrf_proofs = <<>>
    /\ Rejected
    /\ ret.msg = "Expected future-marker proofs"

\* the claim's own example, in a build with overflow checks
C25_ReachedPanic ==
    /\ V1UntilMarkersPassed
    /\ HighestVersion = 4
    /\ current_epoch = 1
    /\ ret.tag = "Panic"

\* an update of version u64::MAX at an index where the contiguity loop
\* adds 1 to it
MaxVersionInContiguityCheck ==
    Called /\ \E count \in 2..Len(Ups) : Ups[count].version = U64_MAX

\* C26: for versions over the whole u64 range, a proof of two or more
\* updates with version u64::MAX below index 0 ends in a returned error (no
\* panic of version + 1), and key_history_verify (v1) with last_version >=
\* 2^63, where next_marker_exp is 64, ends in a returned error as well (no
\* panic of 1 << next_marker_exp, no acceptance on a wrapped count).
C26_NoOverflow ==
    /\ MaxVersionInContiguityCheck => ret.tag = "Err"
    /\ (V1UpdatesPassed /\ HighestVersion >= Pow2(WordBits - 1)) => ret.tag = "Err"

\* with overflow checks, version + 1 panics
C26_ReachedAddPanic ==
    /\ MaxVersionInContiguityCheck
    /\ ret.tag = "Panic"
    /\ ret.msg = "attempt to add with overflow"

\* with overflow checks, 1 << next_marker panics
C26_ReachedShiftPanic ==
    /\ V1UpdatesPassed
    /\ HighestVersion >= Pow2(WordBits - 1)
    /\ ret.tag = "Panic"
    /\ ret.msg = "attempt to shift left with overflow"

\* without them, the proof <<0, u64::MAX>> passes the contiguity check
C26_ReachedWrappedContiguity ==
    /\ op = "key_history_verify_v2"
    /\ Len(Ups) = 2
    /\ Ups[1].version = 0
    /\ Ups[2].version = U64_MAX
    /\ ret.msg = "Computed start version for the key history should be non-zero"

\* without them, last_version = u64::MAX is accepted with one until-marker,
\* the one of version 0
C26_ReachedWrappedAccepted ==
    /\ V1UpdatesPassed
    /\ HighestVersion = U64_MAX
    /\ ret.tag = "Ok"
    /\ Len(UntilCalls) = 1
    /\ UntilCalls[1].version = 0

====
